---- MODULE Spec2Model ----
(***************************************************************************)
(* Model of the flakybot pytest plugin (flakybot_pytest_runner):           *)
(*   attributes.py  FlakyTestAttributes, default_flaky_attributes          *)
(*   runner.py      FlakybotRunner: get_flaky_tests, pytest_configure,     *)
(*                  pytest_runtest_protocol, call_and_report,              *)
(*                  handle_success, handle_failure                         *)
(* Strings that the code compares by containment (names, class names) are  *)
(* sequences of one-character strings.  A Python Optional[int] is a set:   *)
(* {} is None and {v} is the integer v.                                    *)
(***************************************************************************)
EXTENDS Integers, Sequences, FiniteSets, TLC

VARIABLES
    plugin,            \* module import / PLUGIN = FlakybotRunner() / pytest_configure
    flaky_tests,       \* FlakybotRunner.flaky_tests: test_name -> remote record
    runner_car,        \* self.runner.call_and_report: "default" or "plugin"
    call_infos,        \* FlakybotRunner.call_infos: item -> {when: CallInfo}
    item,              \* the item of each protocol invocation
    item_dict,         \* item.__dict__ restricted to the flaky attributes
    item_excinfo,      \* item.excinfo as set by line 105
    pc,                \* position of each protocol invocation
    should_rerun,      \* local should_rerun
    default_car,       \* local default_call_and_report
    result,            \* how the invocation ended: returned value or raised exception
    attempts,          \* number of calls of self.runner.pytest_runtest_protocol
    history,           \* classified outcome of every inspected attempt, in order
    supplied           \* the remote record's (max_runs, min_passes) seen at resolution

vars == <<plugin, flaky_tests, runner_car, call_infos, item, item_dict, item_excinfo,
          pc, should_rerun, default_car, result, attempts, history, supplied>>

(***************************************************************************)
(* Bounds                                                                  *)
(***************************************************************************)
\* largest max_runs / min_passes a remote record carries
MaxPolicyVal == 2
\* number of records in the remote response
MaxRecords == 2
\* cap on the attempts of one protocol invocation (keeps a diverging loop finite)
MaxAttempts == 4
\* the protocol invocations (one per item object) the runner can hold
Slots == {1, 2}

(***************************************************************************)
(* Optional integers and strings                                           *)
(***************************************************************************)
None == {}
Some(v) == {v}
Val(o) == CHOOSE v \in o : TRUE
\* Python truthiness of an Optional[int]
Truthy(o) == o # {} /\ o # {0}

\* Python's `a in b` for strings
IsSubstring(a, b) ==
    \E i \in 0..(Len(b) - Len(a)) : SubSeq(b, i + 1, i + Len(a)) = a

\* a Python dict with no keys
EmptyDict == [a \in {} |-> 0]
\* d with d[k] = v
SetKey(d, k, v) == [a \in (DOMAIN d) \cup {k} |-> IF a = k THEN v ELSE d[a]]
\* d without key k
DelKey(d, k) == [a \in (DOMAIN d) \ {k} |-> d[a]]

(***************************************************************************)
(* attributes.py                                                           *)
(***************************************************************************)
DEFAULT_MAX_RUNS == 2
DEFAULT_MIN_PASSES == 1

\* FlakyTestAttributes with the names the handlers use also defined
FlakyTestAttributesAliased ==
    [CURRENT_ERRORS |-> "_current_errors",
     CURRENT_RUNS   |-> "_current_runs",
     CURRENT_PASSES |-> "_current_passes",
     MAX_RUNS       |-> "_max_runs",
     MIN_PASSES     |-> "_min_passes",
     FAILURES       |-> "_current_errors",
     RUNS           |-> "_current_runs",
     PASSES         |-> "_current_passes"]

\* the class attributes of FlakyTestAttributes
FlakyTestAttributes ==
    [CURRENT_ERRORS |-> "_current_errors",
     CURRENT_RUNS   |-> "_current_runs",
     CURRENT_PASSES |-> "_current_passes",
     MAX_RUNS       |-> "_max_runs",
     MIN_PASSES     |-> "_min_passes"]

\* FlakyTestAttributes.<name> raises AttributeError unless the class defines it
HasClassAttr(name) == name \in DOMAIN FlakyTestAttributes
ClassAttr(name) == FlakyTestAttributes[name]

\* default_flaky_attributes(max_runs, min_passes): the dict, or ValueError
DefaultFlakyAttributes(max_runs, min_passes) ==
    LET mr == IF ~Truthy(max_runs) THEN DEFAULT_MAX_RUNS ELSE Val(max_runs)
        mp == IF ~Truthy(min_passes) THEN DEFAULT_MIN_PASSES ELSE Val(min_passes)
    IN  IF mp <= 0 THEN [raised |-> "ValueError", attrs |-> EmptyDict]
        ELSE IF mr < mp THEN [raised |-> "ValueError", attrs |-> EmptyDict]
        ELSE [raised |-> "none",
              attrs  |-> [a \in {"_max_runs", "_min_passes", "_current_runs", "_current_passes"} |->
                            CASE a = "_max_runs" -> mr
                              [] a = "_min_passes" -> mp
                              [] OTHER -> 0]]

(***************************************************************************)
(* Exception info and CallInfo objects of the host runner                  *)
(***************************************************************************)
\* CallInfo.excinfo is None
NoExc == [typename |-> "", when |-> "", attempt |-> 0]
\* the ExceptionInfo of a phase that raised
Exc(typename, when, n) == [typename |-> typename, when |-> when, attempt |-> n]
IsExc(e) == e.typename # ""
\* the CallInfo that runner.call_runtest_hook returns for a phase outcome
CallInfoOf(o, when, n) ==
    [excinfo |-> CASE o = "passed"  -> NoExc
                   [] o = "skipped" -> Exc("Skipped", when, n)
                   [] OTHER         -> Exc("Failed", when, n)]

(***************************************************************************)
(* runner.py: the decision engine                                          *)
(***************************************************************************)
\* is_flaky_test(test)
is_flaky_test(d) == ClassAttr("MIN_PASSES") \in DOMAIN d

\* getattr(test, attribute, dflt)
GetAttr(d, attribute, dflt) == IF attribute \in DOMAIN d THEN d[attribute] ELSE dflt

\* increment(test, attribute)
increment(d, attribute) == SetKey(d, attribute, GetAttr(d, attribute, 0) + 1)

\* did_test_pass(test), once FlakyTestAttributes.PASSES resolved
did_test_pass(d) == d[ClassAttr("PASSES")] >= d[ClassAttr("MIN_PASSES")]

Returned(d, b) == [raised |-> "none", ret |-> b, dict |-> d]
Raised(d, e) == [raised |-> e, ret |-> FALSE, dict |-> d]

\* handle_failure that asks for a rerun of a test that is not flaky
HandleFailureRerunsUnflagged(d, exc_info) ==
    IF is_flaky_test(d) THEN Raised(d, "AttributeError") ELSE Returned(d, TRUE)

\* handle_failure that counts in _current_runs / _current_errors and does not
\* tell a skip from a failure
HandleFailureRetriesSkip(d, exc_info) ==
    IF is_flaky_test(d)
    THEN LET d1 == increment(d, "_current_runs")
             d2 == SetKey(d1, "_current_errors",
                          Append(GetAttr(d1, "_current_errors", <<>>), exc_info))
         IN  Returned(d2, d2["_current_runs"] < d2["_max_runs"])
    ELSE Returned(d, FALSE)

\* handle_failure(test, exc_info)
HandleFailure(d, exc_info) ==
    IF is_flaky_test(d)
    THEN IF ~HasClassAttr("RUNS") THEN Raised(d, "AttributeError")
         ELSE LET d1 == increment(d, ClassAttr("RUNS")) IN
              IF ~HasClassAttr("FAILURES") THEN Raised(d1, "AttributeError")
              ELSE LET all_errors == Append(GetAttr(d1, ClassAttr("FAILURES"), <<>>), exc_info)
                       d2 == SetKey(d1, ClassAttr("FAILURES"), all_errors)
                   IN  IF d2[ClassAttr("RUNS")] < d2[ClassAttr("MAX_RUNS")]
                       THEN Returned(d2, ~(exc_info.typename = "Skipped"))
                       ELSE Returned(d2, FALSE)
    ELSE Returned(d, FALSE)

\* handle_success(test)
HandleSuccess(d) ==
    IF ~is_flaky_test(d) THEN Returned(d, FALSE)
    ELSE IF ~HasClassAttr("RUNS") THEN Raised(d, "AttributeError")
    ELSE LET d1 == increment(d, ClassAttr("RUNS")) IN
         IF ~HasClassAttr("PASSES") THEN Raised(d1, "AttributeError")
         ELSE LET d2 == increment(d1, ClassAttr("PASSES")) IN
              Returned(d2, ~did_test_pass(d2))

(***************************************************************************)
(* Inputs: test items of the host, records of the remote collaborator      *)
(***************************************************************************)
\* item.name of the collected tests ("t", its parametrization "t[1]", and "u")
ItemNames == { <<"t">>, <<"t", "[", "1", "]">>, <<"u">> }
\* a test item: its name, the module and name of its instance, its aviator marker
ItemSet == [name : ItemNames, module : { <<"m">> }, cls : { <<"C">> }, marker : BOOLEAN]
NoItem == [name |-> <<>>, module |-> <<>>, cls |-> <<>>, marker |-> FALSE]

\* test_name / class_name values of remote records
RemoteNames == { <<"t">>, <<>> }
RemoteClassNames == { <<"C">>, <<"m", ".", "C">>, <<"D">> }
PolicyVals == {None} \cup {Some(v) : v \in (-1)..MaxPolicyVal}
RemoteRecords ==
    [test_name : RemoteNames, class_name : RemoteClassNames,
     min_passes : PolicyVals, max_runs : PolicyVals]

\* outcomes of one phase of an attempt as the host produces them
PhaseOutcomes == {"passed", "failed", "skipped", "interrupt"}

(***************************************************************************)
(* runner.py: plugin construction                                          *)
(***************************************************************************)
Init ==
    /\ plugin = [state |-> "unloaded", remaining |-> 0, setuponly |-> FALSE,
                 lookup |-> "pending", response |-> {}]
    /\ flaky_tests = EmptyDict
    /\ runner_car = "default"
    /\ call_infos = EmptyDict
    /\ item = [s \in Slots |-> NoItem]
    /\ item_dict = [s \in Slots |-> EmptyDict]
    /\ item_excinfo = [s \in Slots |-> NoExc]
    /\ pc = [s \in Slots |-> "idle"]
    /\ should_rerun = [s \in Slots |-> FALSE]
    /\ default_car = [s \in Slots |-> "default"]
    /\ result = [s \in Slots |-> "none"]
    /\ attempts = [s \in Slots |-> 0]
    /\ history = [s \in Slots |-> <<>>]
    /\ supplied = [s \in Slots |-> <<>>]

protocol_vars == <<runner_car, call_infos, item, item_dict, item_excinfo, pc,
                   should_rerun, default_car, result, attempts, history, supplied>>

\* get_flaky_tests up to line 62: the request is answered with n records, or it
\* raises, and the exception leaves __init__ (line 22) and the module (line 252)
RequestFlakyTests ==
    /\ plugin.state = "unloaded"
    /\ \/ \E n \in 0..MaxRecords :
            plugin' = [plugin EXCEPT !.state = "loading", !.remaining = n,
                                     !.lookup = "answered"]
       \/ plugin' = [plugin EXCEPT !.state = "import_failed", !.lookup = "failed"]
    /\ UNCHANGED <<flaky_tests, protocol_vars>>

\* one iteration of the loop of lines 64-66
StoreFlakyTest ==
    /\ plugin.state = "loading"
    /\ plugin.remaining > 0
    /\ \E test \in RemoteRecords :
          /\ flaky_tests' = IF test.test_name # <<>>
                            THEN SetKey(flaky_tests, test.test_name, test)
                            ELSE flaky_tests
          /\ plugin' = [plugin EXCEPT
                          !.remaining = @ - 1,
                          !.response = @ \cup {[test_name |-> test.test_name,
                                                class_name |-> test.class_name]}]
    /\ UNCHANGED protocol_vars

\* the end of __init__ and pytest_configure: self.runner is the host's runner,
\* whose session runs with or without --setup-only
Configure ==
    /\ plugin.state = "loading"
    /\ plugin.remaining = 0
    /\ \E so \in BOOLEAN :
          plugin' = [plugin EXCEPT !.state = "configured", !.setuponly = so]
    /\ UNCHANGED <<flaky_tests, protocol_vars>>

(***************************************************************************)
(* runner.py: pytest_runtest_protocol                                      *)
(***************************************************************************)
\* the position of the first "[" of a name (0 if it has none): str.index("[")
IndexOfBracket(name) ==
    IF \E i \in DOMAIN name : name[i] = "["
    THEN CHOOSE i \in DOMAIN name :
            name[i] = "[" /\ \A j \in 1..(i - 1) : name[j] # "["
    ELSE 0

\* _get_test_name(test): the name without its parametrization suffix
GetTestName(it) ==
    IF it.name # <<>> /\ it.name[Len(it.name)] = "]" /\ IndexOfBracket(it.name) > 0
    THEN SubSeq(it.name, 1, IndexOfBracket(it.name) - 1)
    ELSE it.name

\* _get_class_name(test)
GetClassName(it) ==
    IF it.module # <<>> THEN it.module \o <<".">> \o it.cls ELSE it.cls

\* the condition of lines 71-75
RemoteMatch(ft, it) ==
    /\ DOMAIN ft # {}
    /\ it.name \in DOMAIN ft
    /\ IsSubstring(ft[it.name].class_name, GetClassName(it))

\* lines 76-82 and _mark_flaky: the attributes set on the item, or ValueError
MarkFlaky(rec) ==
    LET min_passes == IF Truthy(rec.min_passes) THEN rec.min_passes ELSE Some(DEFAULT_MIN_PASSES)
        max_runs == IF Truthy(rec.max_runs) THEN rec.max_runs ELSE Some(DEFAULT_MAX_RUNS)
    IN  DefaultFlakyAttributes(max_runs, min_passes)

\* lines 68-88: resolve the policy, open the call_infos entry, install the interception
Enter(s, it) ==
    /\ plugin.state = "configured"
    /\ pc[s] \in {"idle", "done"}
    /\ item' = [item EXCEPT ![s] = it]
    /\ item_excinfo' = [item_excinfo EXCEPT ![s] = NoExc]
    /\ attempts' = [attempts EXCEPT ![s] = 0]
    /\ history' = [history EXCEPT ![s] = <<>>]
    /\ LET match == RemoteMatch(flaky_tests, it)
           marked == IF match THEN MarkFlaky(flaky_tests[it.name])
                     ELSE [raised |-> "none", attrs |-> EmptyDict]
       IN  /\ supplied' = [supplied EXCEPT ![s] =
                             IF match THEN << [max_runs |-> flaky_tests[it.name].max_runs,
                                               min_passes |-> flaky_tests[it.name].min_passes] >>
                             ELSE <<>>]
           /\ IF marked.raised # "none"
              THEN /\ pc' = [pc EXCEPT ![s] = "done"]
                   /\ result' = [result EXCEPT ![s] = marked.raised]
                   /\ item_dict' = [item_dict EXCEPT ![s] = EmptyDict]
                   /\ should_rerun' = [should_rerun EXCEPT ![s] = FALSE]
                   /\ UNCHANGED <<call_infos, runner_car, default_car>>
              ELSE /\ item_dict' = [item_dict EXCEPT ![s] = marked.attrs]
                   /\ call_infos' = SetKey(call_infos, s, EmptyDict)
                   /\ default_car' = [default_car EXCEPT ![s] = runner_car]
                   /\ should_rerun' = [should_rerun EXCEPT ![s] = TRUE]
                   /\ runner_car' = "plugin"
                   /\ result' = [result EXCEPT ![s] = "none"]
                   /\ pc' = [pc EXCEPT ![s] = "loop"]
    /\ UNCHANGED <<plugin, flaky_tests>>

\* line 89: the loop test; line 90 starts an attempt, leaving the loop goes to line 109
LoopTest(s) ==
    /\ pc[s] = "loop"
    /\ IF should_rerun[s]
       THEN /\ attempts[s] < MaxAttempts
            /\ attempts' = [attempts EXCEPT ![s] = @ + 1]
            /\ pc' = [pc EXCEPT ![s] = "setup"]
            /\ UNCHANGED result
       ELSE /\ pc' = [pc EXCEPT ![s] = "finally"]
            /\ result' = [result EXCEPT ![s] = "True"]
            /\ UNCHANGED attempts
    /\ UNCHANGED <<plugin, flaky_tests, runner_car, call_infos, item, item_dict,
                   item_excinfo, should_rerun, default_car, history, supplied>>

\* call_and_report that keeps an interrupt as the CallInfo of a failed phase and
\* lets the attempt go on
PhaseSwallowsInterrupt(s, when, o, next) ==
    /\ IF runner_car = "plugin" /\ s \notin DOMAIN call_infos
       THEN /\ result' = [result EXCEPT ![s] = "KeyError"]
            /\ pc' = [pc EXCEPT ![s] = "finally"]
            /\ UNCHANGED <<call_infos, history>>
       ELSE /\ call_infos' = IF runner_car = "plugin"
                             THEN SetKey(call_infos, s,
                                         SetKey(call_infos[s], when,
                                                CallInfoOf(o, when, attempts[s])))
                             ELSE call_infos
            /\ history' = IF o = "interrupt"
                          THEN [history EXCEPT ![s] = Append(@, "Interrupted")]
                          ELSE history
            /\ pc' = [pc EXCEPT ![s] = next]
            /\ UNCHANGED result
    /\ UNCHANGED <<plugin, flaky_tests, runner_car, item, item_dict, item_excinfo,
                   should_rerun, default_car, attempts, supplied>>

\* call_and_report(item, when) as the host reaches it through runner.call_and_report:
\* line 117 runs the phase (an interrupt is re-raised), line 118 keeps the CallInfo
Phase(s, when, o, next) ==
    /\ IF o = "interrupt"
       THEN /\ result' = [result EXCEPT ![s] = "KeyboardInterrupt"]
            /\ history' = [history EXCEPT ![s] = Append(@, "Interrupted")]
            /\ pc' = [pc EXCEPT ![s] = "finally"]
            /\ UNCHANGED call_infos
       ELSE IF runner_car = "plugin" /\ s \notin DOMAIN call_infos
       THEN /\ result' = [result EXCEPT ![s] = "KeyError"]
            /\ pc' = [pc EXCEPT ![s] = "finally"]
            /\ UNCHANGED <<call_infos, history>>
       ELSE /\ call_infos' = IF runner_car = "plugin"
                             THEN SetKey(call_infos, s,
                                         SetKey(call_infos[s], when,
                                                CallInfoOf(o, when, attempts[s])))
                             ELSE call_infos
            /\ pc' = [pc EXCEPT ![s] = next]
            /\ UNCHANGED <<result, history>>
    /\ UNCHANGED <<plugin, flaky_tests, runner_car, item, item_dict, item_excinfo,
                   should_rerun, default_car, attempts, supplied>>

\* the host's runtestprotocol, setup phase; the call phase follows a passed setup
\* unless the session runs with --setup-only
RunSetup(s) ==
    /\ pc[s] = "setup"
    /\ \E o \in PhaseOutcomes :
         Phase(s, "setup", o,
               IF o = "passed" /\ ~plugin.setuponly THEN "call" ELSE "teardown")

\* the host's runtestprotocol, call phase
RunCall(s) ==
    /\ pc[s] = "call"
    /\ \E o \in PhaseOutcomes : Phase(s, "call", o, "teardown")

\* the host's runtestprotocol, teardown phase; line 90 returns after it
RunTeardown(s) ==
    /\ pc[s] = "teardown"
    /\ \E o \in PhaseOutcomes \ {"skipped"} : Phase(s, "teardown", o, "inspect")

\* lines 91-95: the CallInfo and excinfo the loop over ["setup", "call"] ends with
InspectCallInfos(ci) ==
    LET setup_exc == IF "setup" \in DOMAIN ci THEN ci["setup"].excinfo ELSE NoExc
    IN  IF IsExc(setup_exc)
        THEN [call_info |-> TRUE, exc_info |-> setup_exc]
        ELSE [call_info |-> "call" \in DOMAIN ci,
              exc_info  |-> IF "call" \in DOMAIN ci THEN ci["call"].excinfo ELSE NoExc]

\* the outcome of an attempt as the loop sees it
Classify(ins) ==
    CASE ~ins.call_info                     -> "NoOutcome"
      [] ~IsExc(ins.exc_info)               -> "Pass"
      [] ins.exc_info.typename = "Skipped"  -> "Skip"
      [] ins.exc_info.when = "setup"        -> "SetupFail"
      [] OTHER                              -> "Fail"

\* lines 91-105: inspect the captured outcome and ask the decision engine
AfterAttempt(s) ==
    /\ pc[s] = "inspect"
    /\ LET ins == InspectCallInfos(GetAttr(call_infos, s, EmptyDict))
           passed == ~IsExc(ins.exc_info)
           h == IF passed THEN HandleSuccess(item_dict[s])
                ELSE HandleFailure(item_dict[s], ins.exc_info)
       IN  /\ history' = [history EXCEPT ![s] = Append(@, Classify(ins))]
           /\ IF ~ins.call_info
              THEN /\ result' = [result EXCEPT ![s] = "False"]
                   /\ pc' = [pc EXCEPT ![s] = "finally"]
                   /\ UNCHANGED <<item_dict, should_rerun, item_excinfo>>
              ELSE /\ item_dict' = [item_dict EXCEPT ![s] = h.dict]
                   /\ IF h.raised # "none"
                      THEN /\ result' = [result EXCEPT ![s] = h.raised]
                           /\ pc' = [pc EXCEPT ![s] = "finally"]
                           /\ UNCHANGED <<should_rerun, item_excinfo>>
                      ELSE /\ should_rerun' = [should_rerun EXCEPT ![s] = h.ret]
                           /\ item_excinfo' = IF ~passed /\ ~h.ret
                                               THEN [item_excinfo EXCEPT ![s] = ins.exc_info]
                                               ELSE item_excinfo
                           /\ pc' = [pc EXCEPT ![s] = "loop"]
                           /\ UNCHANGED result
    /\ UNCHANGED <<plugin, flaky_tests, runner_car, call_infos, item, default_car,
                   attempts, supplied>>

\* a clean-up that runs only when the loop was left by a return
FinallyOnReturnOnly(s) ==
    /\ pc[s] = "finally"
    /\ IF result[s] \in {"True", "False"}
       THEN /\ runner_car' = default_car[s]
            /\ call_infos' = DelKey(call_infos, s)
       ELSE UNCHANGED <<runner_car, call_infos>>
    /\ pc' = [pc EXCEPT ![s] = "done"]
    /\ UNCHANGED <<plugin, flaky_tests, item, item_dict, item_excinfo, should_rerun,
                   default_car, result, attempts, history, supplied>>

\* lines 106-109: restore the host's call_and_report, drop the call_infos entry
Finally(s) ==
    /\ pc[s] = "finally"
    /\ runner_car' = default_car[s]
    /\ IF s \in DOMAIN call_infos
       THEN /\ call_infos' = DelKey(call_infos, s)
            /\ UNCHANGED result
       ELSE /\ result' = [result EXCEPT ![s] = "KeyError"]
            /\ UNCHANGED call_infos
    /\ pc' = [pc EXCEPT ![s] = "done"]
    /\ UNCHANGED <<plugin, flaky_tests, item, item_dict, item_excinfo, should_rerun,
                   default_car, attempts, history, supplied>>

\* one step of the invocation s between its entry and its exit (lines 89-109)
Steps(s) ==
    \/ LoopTest(s)
    \/ RunSetup(s)
    \/ RunCall(s)
    \/ RunTeardown(s)
    \/ AfterAttempt(s)
    \/ Finally(s)

\* one step of the protocol invocation s
Protocol(s) ==
    \/ \E it \in ItemSet : Enter(s, it)
    \/ Steps(s)

(***************************************************************************)
(* The host runs the tests one after the other (spec section 5): one       *)
(* protocol invocation at a time.                                          *)
(***************************************************************************)
Next ==
    \/ RequestFlakyTests
    \/ StoreFlakyTest
    \/ Configure
    \/ Protocol(1)

Spec == Init /\ [][Next]_vars

\* the host does not abandon an invocation it has entered: line 90 returns, the
\* loop body and the finally block run to their end
FairSpec == Spec /\ WF_vars(Steps(1))

(***************************************************************************)
(* The policy store written while tests run: flaky_tests is a class-level  *)
(* dict (line 15), so get_flaky_tests of a further FlakybotRunner() stores *)
(* its records (lines 64-66) in the dict the running protocol reads.       *)
(***************************************************************************)
\* the records for test t of class C the store holds and receives
StoreRecords ==
    { r \in RemoteRecords :
        /\ r.test_name = <<"t">>
        /\ r.class_name = <<"C">>
        /\ r.max_runs \in {None, Some(1), Some(2)}
        /\ r.min_passes \in {None, Some(1), Some(2)} }

\* the plugin constructed from a one-record response and configured
InitConfigured ==
    /\ \E r \in StoreRecords, so \in BOOLEAN :
          /\ plugin = [state |-> "configured", remaining |-> 0, setuponly |-> so,
                       lookup |-> "answered",
                       response |-> {[test_name |-> r.test_name,
                                      class_name |-> r.class_name]}]
          /\ flaky_tests = SetKey(EmptyDict, r.test_name, r)
    /\ runner_car = "default"
    /\ call_infos = EmptyDict
    /\ item = [s \in Slots |-> NoItem]
    /\ item_dict = [s \in Slots |-> EmptyDict]
    /\ item_excinfo = [s \in Slots |-> NoExc]
    /\ pc = [s \in Slots |-> "idle"]
    /\ should_rerun = [s \in Slots |-> FALSE]
    /\ default_car = [s \in Slots |-> "default"]
    /\ result = [s \in Slots |-> "none"]
    /\ attempts = [s \in Slots |-> 0]
    /\ history = [s \in Slots |-> <<>>]
    /\ supplied = [s \in Slots |-> <<>>]

\* a store write after which every running flagged test is marked again from
\* the stored record
RefreshReresolves ==
    /\ plugin.state = "configured"
    /\ \E test \in StoreRecords :
          /\ flaky_tests' = SetKey(flaky_tests, test.test_name, test)
          /\ item_dict' = [s \in Slots |->
                             IF /\ pc[s] \notin {"idle", "done"}
                                /\ is_flaky_test(item_dict[s])
                                /\ item[s].name = test.test_name
                                /\ MarkFlaky(test).raised = "none"
                             THEN [a \in DOMAIN item_dict[s] |->
                                     IF a \in DOMAIN MarkFlaky(test).attrs
                                     THEN MarkFlaky(test).attrs[a]
                                     ELSE item_dict[s][a]]
                             ELSE item_dict[s]]
    /\ UNCHANGED <<plugin, runner_car, call_infos, item, item_excinfo, pc, should_rerun,
                   default_car, result, attempts, history, supplied>>

\* lines 64-66 run again: one record is stored under its test_name
Refresh ==
    /\ plugin.state = "configured"
    /\ \E test \in StoreRecords :
          flaky_tests' = SetKey(flaky_tests, test.test_name, test)
    /\ UNCHANGED <<plugin, protocol_vars>>

NextStoreChanges ==
    \/ Protocol(1)
    \/ Refresh

SpecStoreChanges == InitConfigured /\ [][NextStoreChanges]_vars

(***************************************************************************)
(* Two protocol invocations on the one runner whose steps interleave: the  *)
(* class-level call_infos (line 18) and runner.call_and_report are shared. *)
(***************************************************************************)
\* two different tests of the session: t, for which the store holds a record, and u
TestT == [name |-> <<"t">>, module |-> <<"m">>, cls |-> <<"C">>, marker |-> FALSE]
TestU == [name |-> <<"u">>, module |-> <<"m">>, cls |-> <<"C">>, marker |-> FALSE]

NextInterleaved ==
    \/ Enter(1, TestT)
    \/ Enter(2, TestU)
    \/ Steps(1)
    \/ Steps(2)

SpecInterleaved == InitConfigured /\ [][NextInterleaved]_vars

(***************************************************************************)
(* Observations used by the properties                                     *)
(***************************************************************************)
\* the invocation s has resolved its item as flaky (the attributes are set)
Flagged(s) == pc[s] # "idle" /\ is_flaky_test(item_dict[s])
\* neither a remote record matched at resolution nor does the item carry the marker
NotFlagged(s) == pc[s] # "idle" /\ supplied[s] = <<>> /\ ~item[s].marker
MaxRunsOf(s) == item_dict[s]["_max_runs"]
MinPassesOf(s) == item_dict[s]["_min_passes"]
RunsOf(s) == GetAttr(item_dict[s], "_current_runs", 0)
PassesOf(s) == GetAttr(item_dict[s], "_current_passes", 0)
FailuresOf(s) == GetAttr(item_dict[s], "_current_errors", <<>>)
\* number of attempts of s whose outcome is one of kinds
CountOf(s, kinds) == Cardinality({i \in DOMAIN history[s] : history[s][i] \in kinds})
LastOutcome(s) == IF history[s] = <<>> THEN "" ELSE history[s][Len(history[s])]
\* the protocol returned True with no failure surfaced / with a failure surfaced
FinalizedPass(s) == pc[s] = "done" /\ result[s] = "True" /\ ~IsExc(item_excinfo[s])
FinalizedFail(s) == pc[s] = "done" /\ result[s] = "True" /\ IsExc(item_excinfo[s])
\* the outcome the step AfterAttempt(s) is about to hand to the decision engine
Pending(s) == IF pc[s] = "inspect"
              THEN Classify(InspectCallInfos(GetAttr(call_infos, s, EmptyDict)))
              ELSE ""
PendingExc(s) == InspectCallInfos(GetAttr(call_infos, s, EmptyDict)).exc_info

(***************************************************************************)
(* C1: for a flagged test the number of attempts never exceeds max_runs    *)
(* (runs <= max_runs always), and a test that has used max_runs attempts   *)
(* with fewer than min_passes passes is finalized as failing, not rerun.   *)
(***************************************************************************)
C1_BudgetRespected ==
    \A s \in Slots : Flagged(s) =>
        /\ attempts[s] <= MaxRunsOf(s)
        /\ RunsOf(s) <= MaxRunsOf(s)
        /\ ( /\ pc[s] = "done"
             /\ attempts[s] = MaxRunsOf(s)
             /\ LastOutcome(s) = "Fail"
             /\ CountOf(s, {"Pass"}) < MinPassesOf(s)
             => FinalizedFail(s) )

(***************************************************************************)
(* C2: a test that is not flagged runs exactly one attempt whatever its    *)
(* outcome; the decision after that attempt is "stop"; no retry counter    *)
(* and no failure list is created for it.                                  *)
(***************************************************************************)
C2_UnflaggedRunsOnce ==
    \A s \in Slots : NotFlagged(s) =>
        /\ attempts[s] <= 1
        /\ pc[s] = "done" => attempts[s] = 1
        /\ item_dict[s] = EmptyDict
        /\ LastOutcome(s) \in {"Pass", "Fail", "SetupFail", "Skip"}
             => /\ ~should_rerun[s]
                /\ pc[s] \in {"loop", "finally", "done"}
                /\ result[s] \in {"none", "True"}

C2_Witness ==
    /\ NotFlagged(1)
    /\ DOMAIN flaky_tests # {}
    /\ pc[1] = "done"
    /\ history[1] = <<"Fail">>
    /\ attempts[1] = 1
    /\ result[1] = "True"

(***************************************************************************)
(* C3: for a flagged test handle_success adds 1 to runs and 1 to passes    *)
(* and asks for a rerun iff the new passes is below min_passes.            *)
(***************************************************************************)
C3_HandleSuccessCounts ==
    [][\A s \in Slots :
         (Flagged(s) /\ Pending(s) = "Pass" /\ pc'[s] # "inspect") =>
            /\ RunsOf(s)' = RunsOf(s) + 1
            /\ PassesOf(s)' = PassesOf(s) + 1
            /\ PassesOf(s)' <= MinPassesOf(s)
            /\ pc'[s] = "loop"
            /\ should_rerun'[s] = (PassesOf(s)' < MinPassesOf(s))]_vars

(***************************************************************************)
(* C4: for a flagged test whose attempt failed (no skip) handle_failure    *)
(* adds 1 to runs, appends the failure to the accumulated list and asks    *)
(* for a rerun iff the new runs is strictly below max_runs.                *)
(***************************************************************************)
C4_HandleFailureCounts ==
    [][\A s \in Slots :
         (Flagged(s) /\ Pending(s) = "Fail" /\ pc'[s] # "inspect") =>
            /\ RunsOf(s)' = RunsOf(s) + 1
            /\ FailuresOf(s)' = Append(FailuresOf(s), PendingExc(s))
            /\ pc'[s] = "loop"
            /\ should_rerun'[s] = (RunsOf(s)' < MaxRunsOf(s))]_vars

(***************************************************************************)
(* C5: a skipped attempt of a flagged test is never followed by another    *)
(* attempt, whatever budget remains.                                       *)
(***************************************************************************)
C5_SkipNeverRetried ==
    \A s \in Slots : Flagged(s) =>
        \A i \in DOMAIN history[s] :
            history[s][i] = "Skip" =>
                /\ i = Len(history[s])
                /\ attempts[s] = i
                /\ pc[s] \in {"loop", "finally", "done"}
                /\ pc[s] = "loop" => ~should_rerun[s]

C5_Witness ==
    /\ Flagged(1)
    /\ MaxRunsOf(1) = 2
    /\ MinPassesOf(1) = 1
    /\ history[1] = <<"Skip">>
    /\ attempts[1] = 1
    /\ pc[1] = "done"

(***************************************************************************)
(* C6: policy construction succeeds exactly for the supplied pairs with    *)
(* min_passes >= 1 and max_runs >= min_passes and raises a configuration   *)
(* error for every other supplied pair (0 included); a supplied value is   *)
(* never replaced by the default.                                          *)
(***************************************************************************)
C6_PolicyValidated ==
    \A s \in Slots :
        (pc[s] # "idle" /\ supplied[s] # <<>>
           /\ supplied[s][1].max_runs # None /\ supplied[s][1].min_passes # None) =>
            LET mr == Val(supplied[s][1].max_runs)
                mp == Val(supplied[s][1].min_passes)
            IN  IF mp >= 1 /\ mr >= mp
                THEN /\ result[s] # "ValueError"
                     /\ is_flaky_test(item_dict[s])
                     /\ MaxRunsOf(s) = mr
                     /\ MinPassesOf(s) = mp
                ELSE /\ result[s] = "ValueError"
                     /\ ~is_flaky_test(item_dict[s])

(***************************************************************************)
(* C7: a flagged test is finalized as passing only after a passing attempt *)
(* with passes >= min_passes and as failing only with passes < min_passes; *)
(* under the policy (max_runs=2, min_passes=1) a first failed attempt is   *)
(* followed by a second one, and [Fail, Pass] ends with verdict Pass,      *)
(* [Fail, Fail] with verdict Fail.                                         *)
(***************************************************************************)
C7_Verdicts ==
    \A s \in Slots : (Flagged(s) /\ pc[s] = "done") =>
        /\ FinalizedPass(s) =>
              LastOutcome(s) = "Pass" /\ CountOf(s, {"Pass"}) >= MinPassesOf(s)
        /\ FinalizedFail(s) => CountOf(s, {"Pass"}) < MinPassesOf(s)
        /\ (MaxRunsOf(s) = 2 /\ MinPassesOf(s) = 1 /\ history[s] # <<>>
              /\ history[s][1] = "Fail") =>
                /\ attempts[s] = 2
                /\ history[s] = <<"Fail", "Pass">> => FinalizedPass(s)
                /\ history[s] = <<"Fail", "Fail">> => FinalizedFail(s)

(***************************************************************************)
(* C8: the failures of a flagged test are accumulated: after every attempt *)
(* the failure list holds one record per failed attempt so far, in attempt *)
(* order, and when the loop stops after a failed attempt item.excinfo is   *)
(* the failure of the last attempt.                                        *)
(***************************************************************************)
C8_FailuresAccumulated ==
    \A s \in Slots :
      (Flagged(s) /\ pc[s] \in {"loop", "finally", "done"}
         /\ \A i \in DOMAIN history[s] : history[s][i] \in {"Pass", "Fail"}) =>
        /\ Len(FailuresOf(s)) = CountOf(s, {"Fail"})
        /\ \A i, j \in DOMAIN FailuresOf(s) :
              i < j => FailuresOf(s)[i].attempt < FailuresOf(s)[j].attempt
        /\ (LastOutcome(s) = "Fail" /\ pc[s] = "done") =>
              /\ IsExc(item_excinfo[s])
              /\ item_excinfo[s].attempt = attempts[s]

C10_MarkerFlagged ==
    \A s \in Slots :
        (pc[s] # "idle" /\ item[s].marker /\ supplied[s] = <<>>) =>
            /\ is_flaky_test(item_dict[s])
            /\ MaxRunsOf(s) = DEFAULT_MAX_RUNS
            /\ MinPassesOf(s) = DEFAULT_MIN_PASSES
            /\ (history[s] = <<"Fail">> /\ pc[s] = "loop") => should_rerun[s]
            /\ (history[s] # <<>> /\ history[s][1] = "Fail" /\ pc[s] = "done")
                 => attempts[s] = 2

(***************************************************************************)
(* C11: a test is flagged through the remote policy iff some record of the *)
(* response has test_name equal to the test's name without parametrization *)
(* suffix and class_name contained in the test's qualified scope name.     *)
(***************************************************************************)
C11_RemoteMatchRule ==
    \A s \in Slots : pc[s] # "idle" =>
        ( supplied[s] # <<>>
          <=> \E r \in plugin.response :
                 /\ r.test_name = GetTestName(item[s])
                 /\ IsSubstring(r.class_name, GetClassName(item[s])) )

(***************************************************************************)
(* C12: for a test flagged through a remote record the resolved policy     *)
(* takes max_runs and min_passes from the record where the record gives    *)
(* them and from the default (2, 1) where it does not, each field on its   *)
(* own.                                                                    *)
(***************************************************************************)
C12_RemotePolicyResolved ==
    \A s \in Slots : (Flagged(s) /\ supplied[s] # <<>>) =>
        /\ MaxRunsOf(s) = IF supplied[s][1].max_runs # None
                          THEN Val(supplied[s][1].max_runs) ELSE DEFAULT_MAX_RUNS
        /\ MinPassesOf(s) = IF supplied[s][1].min_passes # None
                            THEN Val(supplied[s][1].min_passes) ELSE DEFAULT_MIN_PASSES

(***************************************************************************)
(* C13: when the remote lookup fails the runner still starts, and every    *)
(* test it runs is not flagged and makes exactly one attempt; the failure  *)
(* of the lookup does not block the run.                                   *)
(***************************************************************************)
C13_LookupFailureDegrades ==
    plugin.lookup = "failed" =>
        /\ plugin.state # "import_failed"
        /\ \A s \in Slots : pc[s] # "idle" =>
              /\ ~is_flaky_test(item_dict[s])
              /\ attempts[s] <= 1

(***************************************************************************)
(* C14: the rerun loop terminates for every test, every valid policy and   *)
(* every supply of attempt outcomes: an invocation that has entered the    *)
(* loop reaches a finalized state (the protocol returns) after finitely    *)
(* many attempts, unless the host interrupts it.                           *)
(***************************************************************************)
C14_ProtocolFinalizes ==
    \A s \in Slots :
        (pc[s] = "loop") ~>
            (pc[s] = "done" /\ result[s] \in {"True", "False", "KeyboardInterrupt"})

(***************************************************************************)
(* C15: for a flagged test runs starts at 0 and counts the completed       *)
(* attempts (pass, fail or skip), one per attempt; passes counts the       *)
(* passing attempts; 0 <= passes <= runs in every reachable state.         *)
(***************************************************************************)
C15_CountersTrackAttempts ==
    \A s \in Slots : Flagged(s) =>
        /\ 0 <= PassesOf(s)
        /\ PassesOf(s) <= RunsOf(s)
        /\ RunsOf(s) = CountOf(s, {"Pass", "Fail", "SetupFail", "Skip"})
        /\ PassesOf(s) = CountOf(s, {"Pass"})

(***************************************************************************)
(* C16: the policy of a test is resolved once, at entry: while the         *)
(* invocation runs no step (an attempt, handle_success, handle_failure, a  *)
(* write to the policy store) changes whether the test is flagged or its   *)
(* max_runs and min_passes.                                                *)
(***************************************************************************)
C16_PolicyFixed ==
    [][\A s \in Slots : pc[s] \notin {"idle", "done"} =>
          /\ is_flaky_test(item_dict'[s]) = is_flaky_test(item_dict[s])
          /\ is_flaky_test(item_dict[s]) =>
                /\ MaxRunsOf(s)' = MaxRunsOf(s)
                /\ MinPassesOf(s)' = MinPassesOf(s)]_vars

C16_Witness ==
    /\ Flagged(1)
    /\ pc[1] = "finally"
    /\ history[1] = <<"Fail">>
    /\ supplied[1] = << [max_runs |-> Some(2), min_passes |-> Some(2)] >>
    /\ MaxRunsOf(1) = 2
    /\ MinPassesOf(1) = 2
    /\ item[1].name \in DOMAIN flaky_tests
    /\ flaky_tests[item[1].name].max_runs = Some(1)
    /\ flaky_tests[item[1].name].min_passes = Some(1)

(***************************************************************************)
(* C17: when the host signals an interrupt during an attempt of a flagged  *)
(* test the loop is left (the interrupt propagates) and no further attempt *)
(* is started, whatever the counters and the remaining budget.             *)
(***************************************************************************)
C17_InterruptNeverRetried ==
    \A s \in Slots : Flagged(s) =>
        \A i \in DOMAIN history[s] :
            history[s][i] = "Interrupted" =>
                /\ i = Len(history[s])
                /\ attempts[s] = i
                /\ pc[s] \in {"finally", "done"}
                /\ result[s] = "KeyboardInterrupt"

C17_Witness ==
    /\ Flagged(1)
    /\ MaxRunsOf(1) = 2
    /\ MinPassesOf(1) = 1
    /\ RunsOf(1) = 0
    /\ history[1] = <<"Interrupted">>
    /\ result[1] = "KeyboardInterrupt"
    /\ attempts[1] = 1
    /\ pc[1] = "done"

(***************************************************************************)
(* C18: when the protocols of two tests interleave on the same runner each *)
(* test's outcomes are captured as when it runs alone (an attempt is left  *)
(* without outcome only under --setup-only, no call_infos entry is         *)
(* missing), and once both protocols have finished runner.call_and_report  *)
(* is the host's original one (runs that the host interrupts set aside).   *)
(***************************************************************************)
C18_InterleavingIndependent ==
    (\A s \in Slots : LastOutcome(s) # "Interrupted") =>
        /\ \A s \in Slots :
              /\ result[s] # "KeyError"
              /\ LastOutcome(s) = "NoOutcome" => plugin.setuponly
        /\ (\A s \in Slots : pc[s] \in {"idle", "done"}) => runner_car = "default"

(***************************************************************************)
(* C19: every exit of an invocation that has installed the interception    *)
(* (return after the loop, the early return without outcome, an exception  *)
(* of an attempt or of the decision engine) passes through the clean-up,   *)
(* which restores runner.call_and_report to its value at entry and removes *)
(* the test's call_infos entry.                                            *)
(***************************************************************************)
C19_InterceptionRestored ==
    [][\A s \in Slots :
         /\ (pc[s] \in {"loop", "setup", "call", "teardown", "inspect"}) => pc'[s] # "done"
         /\ (pc[s] = "finally" /\ pc'[s] = "done") =>
               /\ runner_car' = default_car[s]
               /\ s \notin DOMAIN call_infos']_vars

C19_Witness ==
    /\ pc[1] = "done"
    /\ result[1] = "AttributeError"
    /\ history[1] = <<"Fail">>
    /\ runner_car = "default"
    /\ default_car[1] = "default"
    /\ 1 \notin DOMAIN call_infos

(***************************************************************************)
(* C20: every attribute of FlakyTestAttributes that handle_success and     *)
(* handle_failure name is defined by the class, so for a flagged test each *)
(* completed attempt ends in a rerun-or-stop decision and the protocol     *)
(* never aborts with AttributeError.                                       *)
(***************************************************************************)
C20_AttributesDefined ==
    \A s \in Slots : Flagged(s) =>
        /\ result[s] # "AttributeError"
        /\ LastOutcome(s) \in {"Pass", "Fail", "SetupFail", "Skip"} =>
              /\ \A name \in {"RUNS", "PASSES", "FAILURES", "MAX_RUNS", "MIN_PASSES"} :
                    HasClassAttr(name)
              /\ \/ pc[s] = "loop"
                 \/ pc[s] \in {"finally", "done"} /\ result[s] = "True"
                 \/ attempts[s] > Len(history[s])

====
